---- MODULE Spec2Model ----
(***************************************************************************)
(* The delegation ledger of the Supreme Commander agent: the Firestore     *)
(* collections 'tasks', 'task_plans' and 'coordination_requests' and the   *)
(* tool functions of supreme-commander-agent/app/tools.py that write and   *)
(* read them (delegate_to_agent, coordinate_with_peer_agent,               *)
(* create_task_plan, track_goal_progress), called by concurrent callers;   *)
(* and the Slack webhook of slack-webhook/main.py (slack_events, its event *)
(* cache and its background threads), a separate Cloud Function; and the   *)
(* routing tools of the IAM1 agent of app/ (route_to_agent of agent.py,    *)
(* coordinate_with_peer_iam1 of a2a_tools.py).  The Supreme Commander's    *)
(* other entry points (send_slack_notification, handle_message and the     *)
(* Agent Engine's query) are modelled beside the ledger, and so is the     *)
(* dashboard (update_firebase_dashboard of tools.py, get_system_status and *)
(* send_dashboard_alert of firebase_interface.py).                         *)
(***************************************************************************)
EXTENDS Integers, Sequences, FiniteSets, TLC

\* ------------------------------------------------------------------ bounds

\* Number of documents the callers may create on top of the documents the
\* store already holds (each create takes one auto-generated id).
MaxNew == 2

\* Longest 'tasks' list of a plan document the store already holds.
MaxPlanTasks == 3

\* Number of HTTP requests the webhook process receives.
MaxRequests == 3

\* Number of calls of the IAM1 agent's routing tools.
MaxCalls == 2

\* Number of calls of the Supreme Commander's entry points.
MaxCommands == 2

\* Number of alerts the dashboard can hold.
MaxAlerts == 2

\* Number of assigned tasks the store can hold when the dashboard reads it.
MaxStored == 11

\* ------------------------------------------------------------- the callers

\* Callers of the tool functions: the functions are plain synchronous
\* functions with no lock, so two calls may interleave at every store access.
Procs == {"c1", "c2"}

\* ----------------------------------------------------------------- values

\* Document ids. Ids 1 and 2 are the ids of the documents the store may hold
\* before the first call; the others are handed out by document().
Ids == 1..(2 + MaxNew)

\* No document reference (a call that failed before document() returned).
NoId == 0

\* The four priority levels of the type hint of delegate_to_agent.
Priorities == {"critical", "high", "medium", "low"}

\* The status values a task document may carry.
TaskStatuses == {"assigned", "in_progress", "completed", "failed"}

\* A Python value that is not a str (None, an int): the type hints are not
\* enforced at run time, and slicing such a value raises TypeError.
NonStr == "<non-str>"

\* The parameter was left out of the call (its default applies).
Omitted == "<omitted>"

\* A snapshot of a document that does not exist (DocumentSnapshot.exists).
NoDoc == [exists |-> FALSE]

\* (agent_id, task_description, priority) argument triples of delegate_to_agent:
\* valid ones, an omitted priority, and the malformed ones the type hints name.
DelegateInputs ==
    { <<"eng", "build", "high">>,
      <<"data", "report", Omitted>>,
      <<"", "build", "low">>,
      <<"eng", "", "critical">>,
      <<"eng", "build", "urgent">>,
      <<"eng", NonStr, "medium">> }

\* (objective, context) argument pairs of create_task_plan.
PlanInputs == { <<"deploy", Omitted>>, <<"deploy", "prod">> }

\* (peer_agent_id, request) argument pairs of coordinate_with_peer_agent.
CoordInputs == { <<"finance", "budget?">> }

\* What one store access of a call can do: succeed, or raise because the
\* store is unreachable or because it rejects the write.
StoreOutcomes == {"ok", "unreachable", "rejected"}

\* ------------------------------------------------------ the webhook's values

\* Request threads of the webhook process: the server runs slack_events on a
\* thread per request, and threads switch between any two statements.
Handlers == {"r1", "r2"}

\* Python's None: what dict.get returns for a missing key.
None == "<None>"

\* An event_id that is not hashable (a JSON array or object).
Unhashable == "<unhashable>"

\* d.get(key, default) of a JSON object, modelled as a record that carries its
\* JSON kind in the field json beside its keys.
Get(d, key, default) == IF key \in DOMAIN d THEN d[key] ELSE default

\* The value has the method get: it is a JSON object (a dict).
IsDict(d) == d.json = "object"

\* Python's truth value of a string or None.
Truthy(v) == v \notin {"", None}

\* The 'event' objects of the payloads.
SlackEvent(type, text) ==
    [json |-> "object", type |-> type, text |-> text, channel |-> "C1",
     user |-> "U1"]

\* The bodies request.get_json(silent=True) can return: Slack's URL
\* verification, messages and mentions (delivered once or again, with or
\* without an event_id), the events the handler filters out, and JSON that is
\* not the object the handler expects.
Payloads ==
    { [json |-> "object", type |-> "url_verification", challenge |-> "c0"],
      [json |-> "object", type |-> "event_callback", event_id |-> "E1",
       event |-> SlackEvent("message", "hi")],
      [json |-> "object", type |-> "event_callback", event_id |-> "E2",
       event |-> SlackEvent("app_mention", "hey")],
      [json |-> "object", type |-> "event_callback",
       event |-> SlackEvent("message", "hi")],
      [json |-> "object", type |-> "event_callback", event_id |-> "E1",
       event |-> [json |-> "object", type |-> "message", text |-> "beep",
                  channel |-> "C1", bot_id |-> "B1"]],
      [json |-> "object", type |-> "event_callback", event_id |-> "E2",
       event |-> [json |-> "object", type |-> "message", text |-> "remind",
                  channel |-> "C1", user |-> "USLACKBOT"]],
      [json |-> "object", type |-> "event_callback", event_id |-> "E3",
       event |-> SlackEvent("reaction_added", "hi")],
      [json |-> "object", type |-> "event_callback", event_id |-> "E3",
       event |-> SlackEvent("message", "")],
      [json |-> "object", type |-> "event_callback", event_id |-> "E3",
       event |-> [json |-> "object", type |-> "message", text |-> "hi",
                  user |-> "U1"]],
      [json |-> "object", type |-> "event_callback", event_id |-> "E1",
       event |-> [json |-> "null"]],
      [json |-> "object", type |-> "event_callback", event_id |-> Unhashable,
       event |-> SlackEvent("message", "hi")],
      [json |-> "array"] }

\* A request thread that serves no request.
NoPayload == [json |-> "none"]

\* No response sent yet.
NoResponse == [status |-> 0, body |-> [none |-> TRUE]]

\* ({"ok": True}, 200)
OkResponse == [status |-> 200, body |-> [ok |-> TRUE]]

\* ({"challenge": payload.get("challenge")}, 200)
ChallengeResponse(challenge) ==
    [status |-> 200, body |-> [challenge |-> challenge]]

\* An exception that leaves slack_events: the framework answers 500.
ErrorResponse(error) == [status |-> 500, body |-> [error |-> error]]

\* How _process_slack_message can end: the answer is posted, the bot token
\* cannot be read (return without posting), or the post raises (logged).
ProcessOutcomes == {"posted", "no_token", "post_failed"}

\* --------------------------------------------- the IAM1 agent's values (app/)

\* AGENT_REGISTRY of sub_agents.py: task type -> the specialist agent.
AGENT_REGISTRY ==
    [ task_type \in {"research", "code", "data", "slack"} |->
        CASE task_type = "research" -> "research_agent"
          [] task_type = "code" -> "code_agent"
          [] task_type = "data" -> "data_agent"
          [] task_type = "slack" -> "slack_agent" ]

\* The keys of PEER_IAM1_REGISTRY.
PeerDomains ==
    {"engineering", "sales", "operations", "marketing", "finance", "hr"}

\* The values PEER_IAM1_REGISTRY can take at import: each URL is read from
\* the environment and is the empty string when its variable is not set.
PeerRegistries ==
    { [domain \in PeerDomains |-> ""],
      [domain \in PeerDomains |->
          CASE domain = "finance" -> "https://finance.example"
            [] domain = "engineering" -> "https://engineering.example"
            [] OTHER -> ""] }

\* task_type arguments of route_to_agent: registered keys and others (the
\* key of the other registry, a key in another case, the empty string).
TaskTypes == {"research", "slack", "finance", "Research", ""}

\* domain arguments of coordinate_with_peer_iam1.
Domains == {"finance", "engineering", "hr", "research", "Finance"}

\* What specialist.send_message(query) can do: return a response or raise.
SpecialistReplies ==
    { [raises |-> FALSE, text |-> "report"],
      [raises |-> TRUE, text |-> "AttributeError"] }

\* The parts of the artifacts of a remote task, in the order the two loops of
\* lines 112-115 visit them.
PartLists ==
    { << >>,
      << [type |-> "text", text |-> "answer"] >>,
      << [type |-> "text", text |-> ""] >>,
      << [type |-> "data", text |-> "{}"] >>,
      << [type |-> "text", text |-> " "], [type |-> "text", text |-> "answer"],
         [type |-> "data", text |-> "{}"], [type |-> "text", text |-> "more"],
         [type |-> "text", text |-> ""] >> }

\* What the A2A client can do for one request: tasks.create or
\* tasks.wait_until_complete raises, or the task comes back with a status of
\* the A2A protocol, its artifacts and, possibly, an error attribute.
RemoteTasks ==
    { [create |-> "raises", wait |-> "none", status |-> "none",
       parts |-> << >>, error |-> None],
      [create |-> "ok", wait |-> "raises", status |-> "none",
       parts |-> << >>, error |-> None] }
    \cup { [create |-> "ok", wait |-> "ok", status |-> "completed",
            parts |-> parts, error |-> None] : parts \in PartLists }
    \cup { [create |-> "ok", wait |-> "ok", status |-> "failed",
            parts |-> << >>, error |-> error] : error \in {"quota", None} }
    \cup { [create |-> "ok", wait |-> "ok", status |-> status,
            parts |-> << >>, error |-> None] : status \in {"working", "canceled"} }

\* ------------------------------- the Supreme Commander's messages and queries

\* priority arguments of send_slack_notification: the three of the type hint
\* and others (the hint is not enforced).
SlackPriorities == {"info", "warning", "critical", "urgent", "Critical", None}

\* message arguments of send_slack_notification; the second holds the
\* broadcast mention itself.
SlackMessages == {"deploy done", "<!channel> lunch"}

\* What slack_client.chat_postMessage can do: return the response of
\* chat.postMessage, raise SlackApiError, raise another exception.
SlackOutcomes ==
    { [ok |-> TRUE, error |-> "none", text |-> "1700000000.000100"],
      [ok |-> FALSE, error |-> "SlackApiError", text |-> "channel_not_found"],
      [ok |-> FALSE, error |-> "Exception", text |-> "timed out"] }

\* user_id and channel arguments of handle_message: left out (None), the
\* empty string, an identifier.
UserIds == {None, "", "U1"}

Channels == {None, "", "C1"}

\* What supreme_commander.send_message can do: return a response, return a
\* value that is not a str, raise.
AgentReplies ==
    { [raises |-> FALSE, text |-> "All systems nominal"],
      [raises |-> FALSE, text |-> NonStr],
      [raises |-> TRUE, text |-> "model unavailable"] }

\* The request arguments of query: no 'input', an empty one, an input alone
\* and with its context, an input that is not a str, and a request that is
\* not a dict.
Requests ==
    { [json |-> "object"],
      [json |-> "object", input |-> ""],
      [json |-> "object", input |-> "status?"],
      [json |-> "object", input |-> "status?", user_id |-> "U1",
       channel |-> "C1"],
      [json |-> "object", input |-> NonStr],
      [json |-> "null"] }

\* ---------------------------------------------------- the dashboard's values

\* Ids of the documents of the collection 'alerts'.
AlertIds == 1..MaxAlerts

\* (alert_type, message, severity, metadata) arguments of
\* send_dashboard_alert.
AlertInputs ==
    { <<"task_failed", "build broke", "critical", None>>,
      <<"goal_completed", "deployed", Omitted, "run 7">> }

\* metric_type arguments of update_firebase_dashboard.
MetricTypes == {"task_status", "alerts"}

\* data arguments of update_firebase_dashboard: a dict, and a value that is
\* no dict (item assignment raises TypeError).
DashboardData == { [json |-> "object", active |-> 1], [json |-> "null"] }

\* The limit of the query for the active tasks in get_system_status.
TaskLimit == 10

\* The limit of the query for the active plans in get_system_status.
PlanLimit == 5

\* The limit of the query for the recent alerts in get_system_status.
AlertLimit == 5

\* --------------------------------------------------------------- the state

VARIABLES
    tasks,                  \* collection 'tasks': id -> document or NoDoc
    task_plans,             \* collection 'task_plans'
    coordination_requests,  \* collection 'coordination_requests'
    issued,                 \* ids document() has generated so far
    now,                    \* the clock datetime.now(UTC) reads
    pc,                     \* where each caller is in its call
    ref,                    \* a running call's locals: arguments, reference, data
    res,                    \* what each caller's last call returned
    met,                    \* history: what the store did at each caller's
                            \* latest access
    returned,               \* history: id -> the create calls that returned it
    slack_event_cache,      \* the keys of the webhook's _slack_event_cache
    hpc,                    \* where each request thread is in slack_events
    hreq,                   \* the payload each request thread is serving
    hres,                   \* the response each request thread sent last
    threads,                \* the background threads started, in order
    received,               \* history: the payloads received, in order
    PEER_IAM1_REGISTRY,     \* a2a_tools.py: domain -> URL of the peer
    a2a_sdk,                \* whether the package a2a_sdk can be imported
    calls,                  \* history: the calls of the routing tools, each
                            \* with what it sent and what it returned
    slack_client,           \* tools.py: whether the Slack client exists
    slack_posts,            \* the messages posted to Slack, in order
    inbox,                  \* the messages sent to supreme_commander, in order
    commands,               \* history: the calls of the entry points, each
                            \* with its arguments and its result
    alerts,                 \* Firestore collection 'alerts': id -> document
    rt_alerts,              \* Realtime Database: /alerts/{id} -> value
    rt_dashboard,           \* Realtime Database: /dashboard/{metric_type}
    apc                     \* the caller of send_dashboard_alert: its position
                            \* and the reference and dict it holds

\* The ledger's state and the webhook's: two programs that share nothing.
ledger == <<tasks, task_plans, coordination_requests, issued, now,
            pc, ref, res, met, returned>>

webhook == <<slack_event_cache, hpc, hreq, hres, threads, received>>

iam1 == <<PEER_IAM1_REGISTRY, a2a_sdk, calls>>

commander == <<slack_client, slack_posts, inbox, commands>>

dashboard == <<alerts, rt_alerts, rt_dashboard, apc>>

vars == <<ledger, webhook, iam1, commander, dashboard>>

\* ------------------------------------------------------- pure definitions

\* priority: Literal[...] = "medium": the default of an omitted priority.
DefaultPriority(priority) == IF priority = Omitted THEN "medium" ELSE priority

\* context: str = "": the default of an omitted context.
DefaultContext(context) == IF context = Omitted THEN "" ELSE context

\* Mutant of TaskData: the two string arguments stored under each other's key.
TaskDataSwapped(agent_id, task_description, priority, created_at) ==
    [ exists |-> TRUE,
      agent_id |-> task_description,
      task_description |-> agent_id,
      priority |-> priority,
      status |-> "assigned",
      created_at |-> created_at,
      created_by |-> "supreme_commander" ]

\* task_data of delegate_to_agent.
TaskData(agent_id, task_description, priority, created_at) ==
    [ exists |-> TRUE,
      agent_id |-> agent_id,
      task_description |-> task_description,
      priority |-> priority,
      status |-> "assigned",
      created_at |-> created_at,
      created_by |-> "supreme_commander" ]

\* Mutant of CoordData: the request is stored as a task is, assigned and with
\* a priority.
CoordDataAsTask(peer_agent_id, request, created_at) ==
    [ exists |-> TRUE,
      peer_agent_id |-> peer_agent_id,
      request |-> request,
      priority |-> "medium",
      status |-> "assigned",
      created_at |-> created_at,
      requester |-> "supreme_commander" ]

\* coord_data of coordinate_with_peer_agent.
CoordData(peer_agent_id, request, created_at) ==
    [ exists |-> TRUE,
      peer_agent_id |-> peer_agent_id,
      request |-> request,
      status |-> "pending",
      created_at |-> created_at,
      requester |-> "supreme_commander" ]

\* Mutant of PlanData: the plan starts active, with a placeholder task.
PlanDataStarted(objective, context, created_at) ==
    [ exists |-> TRUE,
      objective |-> objective,
      context |-> context,
      status |-> "active",
      created_at |-> created_at,
      created_by |-> "supreme_commander",
      tasks |-> << [status |-> "assigned"] >> ]

\* plan_data of create_task_plan.
PlanData(objective, context, created_at) ==
    [ exists |-> TRUE,
      objective |-> objective,
      context |-> context,
      status |-> "draft",
      created_at |-> created_at,
      created_by |-> "supreme_commander",
      tasks |-> << >> ]

\* Mutant of AutoId: document("1"), a reference with a fixed id.
AutoIdFixed(used) == {1}

\* Mutant of AutoId: a generator that does not look at the ids it has handed
\* out to the other collections (one sequence of ids per call site).
AutoIdAgain(used) == { i \in Ids : i = 3 }

\* Mutant of AutoId: document("2"), the id of a plan the store holds.
AutoIdOfPlan(used) == {2}

\* document() with no argument: a reference with an auto-generated id. The
\* Firestore client draws the id at random from a space so large that it is
\* taken never to repeat: an id not generated before. Ids are opaque (the code
\* only compares them for equality), so the least unused id stands for every
\* id the client could draw. The set is empty when the model's ids are used up.
AutoId(used) ==
    LET free == Ids \ used
    IN  { i \in free : \A j \in free : i <= j }

\* Mutant of DocSet: a write that also stamps the documents the collection
\* already holds with the time of the write.
DocSetRestamp(collection, id, data) ==
    [ i \in DOMAIN collection |->
        IF i = id THEN data
        ELSE IF collection[i].exists
        THEN [collection[i] EXCEPT !.created_at = data.created_at]
        ELSE collection[i] ]

\* DocumentReference.set(data): the document is replaced as a whole.
DocSet(collection, id, data) == [collection EXCEPT ![id] = data]

\* Mutant of DocGet: a read that can see a document half written, without its
\* status field (which the report then shows as 'unknown').
DocGetTorn(collection, goal_id) ==
    IF collection[goal_id].exists
    THEN [collection[goal_id] EXCEPT !.status = "unknown"]
    ELSE collection[goal_id]

\* collection(...).document(goal_id).get(): the document's snapshot.
DocGet(collection, goal_id) == collection[goal_id]

\* Mutant of CompletedOf: counts the tasks that are over, failed ones included.
CompletedOfOver(plan_tasks) ==
    Len(SelectSeq(plan_tasks, LAMBDA t : t.status \in {"completed", "failed"}))

\* len([t for t in tasks if t.get('status') == 'completed'])
CompletedOf(plan_tasks) ==
    Len(SelectSeq(plan_tasks, LAMBDA t : t.status = "completed"))

\* Mutant of TrackReport: no final else; an id that is no task is taken for a
\* plan, and a missing plan reads as a plan with no tasks.
TrackReportNoElse(goal_id, task_doc, plan_doc) ==
    IF task_doc.exists
    THEN [ kind |-> "task", id |-> goal_id,
           agent |-> task_doc.agent_id,
           description |-> task_doc.task_description,
           status |-> task_doc.status,
           priority |-> task_doc.priority,
           created |-> task_doc.created_at ]
    ELSE [ kind |-> "plan", id |-> goal_id,
           objective |-> IF plan_doc.exists THEN plan_doc.objective ELSE "N/A",
           completed |-> IF plan_doc.exists
                         THEN Len(SelectSeq(plan_doc.tasks,
                                            LAMBDA t : t.status = "completed"))
                         ELSE 0,
           total |-> IF plan_doc.exists THEN Len(plan_doc.tasks) ELSE 0,
           status |-> IF plan_doc.exists THEN plan_doc.status ELSE "unknown",
           created |-> IF plan_doc.exists THEN plan_doc.created_at ELSE 0 ]

\* The string track_goal_progress returns, as the fields it carries.
TrackReport(goal_id, task_doc, plan_doc) ==
    IF task_doc.exists
    THEN [ kind |-> "task", id |-> goal_id,
           agent |-> task_doc.agent_id,
           description |-> task_doc.task_description,
           status |-> task_doc.status,
           priority |-> task_doc.priority,
           created |-> task_doc.created_at ]
    ELSE IF plan_doc.exists
    THEN [ kind |-> "plan", id |-> goal_id,
           objective |-> plan_doc.objective,
           completed |-> CompletedOf(plan_doc.tasks),
           total |-> Len(plan_doc.tasks),
           status |-> plan_doc.status,
           created |-> plan_doc.created_at ]
    ELSE [ kind |-> "notfound", id |-> goal_id ]

\* History of a call that reads: the task and plan documents the store held
\* under the call's goal_id when the call made its first read. No such pair.
NoStore == <<NoDoc, NoDoc>>

\* A caller that holds no document reference.
NoRef ==
    [ given |-> << >>, id |-> NoId, data |-> NoDoc, known |-> FALSE,
      began |-> NoStore ]

\* A call that has not returned yet.
Running(op) == [ op |-> op, kind |-> "running", out |-> [id |-> NoId] ]

\* What a create function returns after its set() succeeded: the success
\* string, which carries the new document's id and some of the arguments.
Created(op, id, shown) ==
    [ op |-> op, kind |-> "ok", out |-> [id |-> id, shown |-> shown] ]

\* The except branch of a tool function: the failure string, with str(e).
Failed(op, error) ==
    [ op |-> op, kind |-> "failed", out |-> [id |-> NoId, error |-> error] ]

\* History: the create call of function op with arguments given returned id.
Recorded(log, id, op, given) ==
    [log EXCEPT ![id] = Append(@, [op |-> op, given |-> given])]

\* The return of track_goal_progress when no store access raised.
Tracked(report) == [ op |-> "track", kind |-> report.kind, out |-> report ]

\* -------------------------------------------- the store before the first call

\* The Firestore database outlives the process: it may already hold a task
\* another actor has moved through its life cycle (get_system_status queries
\* tasks by such statuses) and a plan whose 'tasks' list "will be populated by
\* agent's reasoning" with task dicts that carry a status.
StoredTask(status) ==
    [ exists |-> TRUE, agent_id |-> "ops", task_description |-> "legacy",
      priority |-> "low", status |-> status, created_at |-> 0,
      created_by |-> "supreme_commander" ]

StoredPlan(plan_tasks) ==
    [ exists |-> TRUE, objective |-> "migrate", context |-> "",
      status |-> "active", created_at |-> 0,
      created_by |-> "supreme_commander", tasks |-> plan_tasks ]

RECURSIVE SeqsUpTo(_, _)
SeqsUpTo(S, n) ==
    IF n = 0 THEN { << >> }
    ELSE LET shorter == SeqsUpTo(S, n - 1)
         IN  shorter \cup { Append(q, x) : q \in shorter, x \in S }

\* The task dicts of a stored plan's 'tasks' list.
PlanTaskDicts == { [status |-> s] : s \in TaskStatuses }

\* The store holds the plans task_plans/2 and, when it exists, task_plans/3;
\* no caller runs and the webhook has received nothing.
InitBesideTasks(plan, other_plan) ==
    /\ task_plans = [i \in Ids |-> IF i = 2 THEN plan
                                   ELSE IF i = 3 THEN other_plan ELSE NoDoc]
    /\ coordination_requests = [i \in Ids |-> NoDoc]
    /\ issued = IF other_plan.exists THEN {1, 2, 3} ELSE {1, 2}
    /\ now = 1
    /\ pc = [p \in Procs |-> "idle"]
    /\ ref = [p \in Procs |-> NoRef]
    /\ res = [p \in Procs |-> Running("none")]
    /\ met = [p \in Procs |-> "ok"]
    /\ returned = [i \in Ids |-> << >>]
    /\ slack_event_cache = {}
    /\ hpc = [h \in Handlers |-> "idle"]
    /\ hreq = [h \in Handlers |-> NoPayload]
    /\ hres = [h \in Handlers |-> NoResponse]
    /\ threads = << >>
    /\ received = << >>

\* The store holds the task tasks/1 and the plans task_plans/2 and, when it
\* exists, task_plans/3; no caller runs.
InitWith(task, plan, other_plan) ==
    /\ tasks = [i \in Ids |-> IF i = 1 THEN task ELSE NoDoc]
    /\ InitBesideTasks(plan, other_plan)

\* The IAM1 agent after import: its registry of peers as the environment
\* gave it, and no call made.
InitIam1(registry, installed) ==
    /\ PEER_IAM1_REGISTRY = registry
    /\ a2a_sdk = installed
    /\ calls = << >>

\* The Supreme Commander after import, with or without a Slack client
\* (lines 34-39 of tools.py), and nothing sent.
InitCommander(client) ==
    /\ slack_client = client
    /\ slack_posts = << >>
    /\ inbox = << >>
    /\ commands = << >>

\* A caller of send_dashboard_alert that holds no reference.
AlertIdle == [ at |-> "idle", id |-> NoId, data |-> NoDoc, given |-> << >> ]

\* The dashboard holds no alert and no metric.
InitDashboard ==
    /\ alerts = [id \in AlertIds |-> NoDoc]
    /\ rt_alerts = [id \in AlertIds |-> NoDoc]
    /\ rt_dashboard = [metric_type \in MetricTypes |-> NoDoc]
    /\ apc = AlertIdle

Init ==
    /\ InitWith(StoredTask("completed"),
                StoredPlan(<<[status |-> "completed"], [status |-> "failed"]>>),
                NoDoc)
    /\ InitIam1([domain \in PeerDomains |-> ""], FALSE)
    /\ InitCommander(FALSE)
    /\ InitDashboard

\* ------------------------------------------------------ delegate_to_agent

\* Lines 59-71: firestore.client(), collection('tasks').document(), task_data.
Delegate(p, in, o) ==
    /\ pc[p] = "idle"
    /\ met' = [met EXCEPT ![p] = o]
    /\ IF o = "ok"
       THEN /\ AutoId(issued) # {}
            /\ \E id \in AutoId(issued) :
                 /\ issued' = issued \cup {id}
                 /\ ref' = [ref EXCEPT ![p] =
                       [ given |-> in, id |-> id, known |-> FALSE, began |-> NoStore,
                         data |-> TaskData(in[1], in[2],
                                           DefaultPriority(in[3]), now) ]]
            /\ now' = now + 1
            /\ pc' = [pc EXCEPT ![p] = "delegate_set"]
            /\ res' = [res EXCEPT ![p] = Running("delegate")]
       ELSE /\ res' = [res EXCEPT ![p] = Failed("delegate", o)]
            /\ UNCHANGED <<issued, ref, now, pc>>
    /\ UNCHANGED <<tasks, task_plans, coordination_requests, returned>>
    /\ UNCHANGED <<webhook, iam1, commander, dashboard>>

\* Mutant of DelegateSet: the document is written before the store's answer is
\* looked at, so a rejected write leaves the record behind.
DelegateSetEager(p, o) ==
    /\ pc[p] = "delegate_set"
    /\ met' = [met EXCEPT ![p] = o]
    /\ tasks' = DocSet(tasks, ref[p].id, ref[p].data)
    /\ IF o = "ok" /\ ref[p].given[2] # NonStr
       THEN /\ res' = [res EXCEPT ![p] =
                  Created("delegate", ref[p].id,
                          <<ref[p].data.agent_id, ref[p].data.priority>>)]
            /\ returned' = Recorded(returned, ref[p].id, res'[p].op, ref[p].given)
       ELSE /\ res' = [res EXCEPT ![p] =
                  Failed("delegate", IF o = "ok" THEN "TypeError" ELSE o)]
            /\ UNCHANGED returned
    /\ pc' = [pc EXCEPT ![p] = "idle"]
    /\ ref' = [ref EXCEPT ![p] = NoRef]
    /\ UNCHANGED <<task_plans, coordination_requests, issued, now>>
    /\ UNCHANGED <<webhook, iam1, commander, dashboard>>

\* Lines 73-93: task_ref.set(task_data), the log line that slices
\* task_description, and the return.
DelegateSet(p, o) ==
    /\ pc[p] = "delegate_set"
    /\ met' = [met EXCEPT ![p] = o]
    /\ IF o = "ok"
       THEN /\ tasks' = DocSet(tasks, ref[p].id, ref[p].data)
            /\ IF ref[p].given[2] = NonStr
               THEN /\ res' = [res EXCEPT ![p] = Failed("delegate", "TypeError")]
                    /\ UNCHANGED returned
               ELSE /\ res' = [res EXCEPT ![p] =
                          Created("delegate", ref[p].id,
                                  <<ref[p].data.agent_id, ref[p].data.priority>>)]
                    /\ returned' = Recorded(returned, ref[p].id, res'[p].op, ref[p].given)
       ELSE /\ res' = [res EXCEPT ![p] = Failed("delegate", o)]
            /\ UNCHANGED <<tasks, returned>>
    /\ pc' = [pc EXCEPT ![p] = "idle"]
    /\ ref' = [ref EXCEPT ![p] = NoRef]
    /\ UNCHANGED <<task_plans, coordination_requests, issued, now>>
    /\ UNCHANGED <<webhook, iam1, commander, dashboard>>

\* ------------------------------------------------ coordinate_with_peer_agent

\* Lines 112-123: the client, collection('coordination_requests').document(),
\* coord_data.
Coordinate(p, in, o) ==
    /\ pc[p] = "idle"
    /\ met' = [met EXCEPT ![p] = o]
    /\ IF o = "ok"
       THEN /\ AutoId(issued) # {}
            /\ \E id \in AutoId(issued) :
                 /\ issued' = issued \cup {id}
                 /\ ref' = [ref EXCEPT ![p] =
                       [ given |-> in, id |-> id, known |-> FALSE, began |-> NoStore,
                         data |-> CoordData(in[1], in[2], now) ]]
            /\ now' = now + 1
            /\ pc' = [pc EXCEPT ![p] = "coordinate_set"]
            /\ res' = [res EXCEPT ![p] = Running("coordinate")]
       ELSE /\ res' = [res EXCEPT ![p] = Failed("coordinate", o)]
            /\ UNCHANGED <<issued, ref, now, pc>>
    /\ UNCHANGED <<tasks, task_plans, coordination_requests, returned>>
    /\ UNCHANGED <<webhook, iam1, commander, dashboard>>

\* Lines 125-139: coord_ref.set(coord_data) and the return.
CoordinateSet(p, o) ==
    /\ pc[p] = "coordinate_set"
    /\ met' = [met EXCEPT ![p] = o]
    /\ IF o = "ok"
       THEN /\ coordination_requests' =
                  DocSet(coordination_requests, ref[p].id, ref[p].data)
            /\ res' = [res EXCEPT ![p] =
                  Created("coordinate", ref[p].id, <<ref[p].data.peer_agent_id>>)]
            /\ returned' = Recorded(returned, ref[p].id, res'[p].op, ref[p].given)
       ELSE /\ res' = [res EXCEPT ![p] = Failed("coordinate", o)]
            /\ UNCHANGED <<coordination_requests, returned>>
    /\ pc' = [pc EXCEPT ![p] = "idle"]
    /\ ref' = [ref EXCEPT ![p] = NoRef]
    /\ UNCHANGED <<tasks, task_plans, issued, now>>
    /\ UNCHANGED <<webhook, iam1, commander, dashboard>>

\* ---------------------------------------------------------- create_task_plan

\* Lines 244-256: the client, collection('task_plans').document(), plan_data.
CreatePlan(p, in, o) ==
    /\ pc[p] = "idle"
    /\ met' = [met EXCEPT ![p] = o]
    /\ IF o = "ok"
       THEN /\ AutoId(issued) # {}
            /\ \E id \in AutoId(issued) :
                 /\ issued' = issued \cup {id}
                 /\ ref' = [ref EXCEPT ![p] =
                       [ given |-> in, id |-> id, known |-> FALSE, began |-> NoStore,
                         data |-> PlanData(in[1], DefaultContext(in[2]), now) ]]
            /\ now' = now + 1
            /\ pc' = [pc EXCEPT ![p] = "plan_set"]
            /\ res' = [res EXCEPT ![p] = Running("plan")]
       ELSE /\ res' = [res EXCEPT ![p] = Failed("plan", o)]
            /\ UNCHANGED <<issued, ref, now, pc>>
    /\ UNCHANGED <<tasks, task_plans, coordination_requests, returned>>
    /\ UNCHANGED <<webhook, iam1, commander, dashboard>>

\* Lines 258-271: plan_ref.set(plan_data) and the return.
CreatePlanSet(p, o) ==
    /\ pc[p] = "plan_set"
    /\ met' = [met EXCEPT ![p] = o]
    /\ IF o = "ok"
       THEN /\ task_plans' = DocSet(task_plans, ref[p].id, ref[p].data)
            /\ res' = [res EXCEPT ![p] =
                  Created("plan", ref[p].id, <<ref[p].data.objective>>)]
            /\ returned' = Recorded(returned, ref[p].id, res'[p].op, ref[p].given)
       ELSE /\ res' = [res EXCEPT ![p] = Failed("plan", o)]
            /\ UNCHANGED <<task_plans, returned>>
    /\ pc' = [pc EXCEPT ![p] = "idle"]
    /\ ref' = [ref EXCEPT ![p] = NoRef]
    /\ UNCHANGED <<tasks, coordination_requests, issued, now>>
    /\ UNCHANGED <<webhook, iam1, commander, dashboard>>

\* -------------------------------------------------------- track_goal_progress

\* Lines 284-288: the client and the read of tasks/<goal_id>.
Track(p, goal_id, o) ==
    /\ pc[p] = "idle"
    /\ met' = [met EXCEPT ![p] = o]
    /\ IF o = "ok"
       THEN /\ ref' = [ref EXCEPT ![p] =
                  [ given |-> <<goal_id>>, id |-> goal_id,
                    known |-> returned[goal_id] # << >>,
                    began |-> <<tasks[goal_id], task_plans[goal_id]>>,
                    data |-> DocGet(tasks, goal_id) ]]
            /\ pc' = [pc EXCEPT ![p] = "track_plan"]
            /\ res' = [res EXCEPT ![p] = Running("track")]
       ELSE /\ res' = [res EXCEPT ![p] = Failed("track", o)]
            /\ UNCHANGED <<ref, pc>>
    /\ UNCHANGED <<tasks, task_plans, coordination_requests, issued, now, returned>>
    /\ UNCHANGED <<webhook, iam1, commander, dashboard>>

\* Lines 289-321: the read of task_plans/<goal_id> and the report.
TrackPlan(p, o) ==
    /\ pc[p] = "track_plan"
    /\ met' = [met EXCEPT ![p] = o]
    /\ IF o = "ok"
       THEN res' = [res EXCEPT ![p] =
                Tracked(TrackReport(ref[p].id, ref[p].data,
                                    DocGet(task_plans, ref[p].id)))]
       ELSE res' = [res EXCEPT ![p] = Failed("track", o)]
    /\ pc' = [pc EXCEPT ![p] = "idle"]
    /\ ref' = [ref EXCEPT ![p] = NoRef]
    /\ UNCHANGED <<tasks, task_plans, coordination_requests, issued, now, returned>>
    /\ UNCHANGED <<webhook, iam1, commander, dashboard>>

\* --------------------------------------------------------------- slack_events

\* Lines 98-111: the payload, the URL verification, the event and its id, and
\* the look-up of the id in the cache. An exception of these lines (a payload
\* or an event without the method get, an event_id that cannot be hashed)
\* leaves the function.
SlackEvents(h, payload) ==
    /\ hpc[h] = "idle"
    /\ Len(received) < MaxRequests
    /\ received' = Append(received, payload)
    /\ IF ~IsDict(payload)
       THEN /\ hres' = [hres EXCEPT ![h] = ErrorResponse("AttributeError")]
            /\ UNCHANGED <<hpc, hreq>>
       ELSE IF Get(payload, "type", None) = "url_verification"
       THEN /\ hres' = [hres EXCEPT ![h] =
                  ChallengeResponse(Get(payload, "challenge", None))]
            /\ UNCHANGED <<hpc, hreq>>
       ELSE IF ~IsDict(Get(payload, "event", [json |-> "object"]))
       THEN /\ hres' = [hres EXCEPT ![h] = ErrorResponse("AttributeError")]
            /\ UNCHANGED <<hpc, hreq>>
       ELSE IF Get(payload, "event_id", "") = Unhashable
       THEN /\ hres' = [hres EXCEPT ![h] = ErrorResponse("TypeError")]
            /\ UNCHANGED <<hpc, hreq>>
       ELSE IF /\ Truthy(Get(payload, "event_id", ""))
               /\ Get(payload, "event_id", "") \in slack_event_cache
       THEN /\ hres' = [hres EXCEPT ![h] = OkResponse]
            /\ UNCHANGED <<hpc, hreq>>
       ELSE /\ hpc' = [hpc EXCEPT ![h] = "checked"]
            /\ hreq' = [hreq EXCEPT ![h] = payload]
            /\ hres' = [hres EXCEPT ![h] = NoResponse]
    /\ UNCHANGED <<slack_event_cache, threads>>
    /\ UNCHANGED <<ledger, iam1, commander, dashboard>>

\* Mutant of Forwarded: the filter of line 117 (bot_id, USLACKBOT) left out.
ForwardedBots(event) ==
    /\ Get(event, "type", None) \in {"message", "app_mention"}
    /\ Truthy(Get(event, "text", ""))
    /\ Truthy(Get(event, "channel", None))

\* The event passes the filters of lines 116-129: no bot message, a message
\* or a mention, with a text and a channel.
Forwarded(event) ==
    /\ ~Truthy(Get(event, "bot_id", None))
    /\ Get(event, "user", None) # "USLACKBOT"
    /\ Get(event, "type", None) \in {"message", "app_mention"}
    /\ Truthy(Get(event, "text", ""))
    /\ Truthy(Get(event, "channel", None))

\* threading.Thread(target=_process_slack_message, args=(text, channel, user,
\* event_id)) once started.
Thread(event, event_id) ==
    [ text |-> Get(event, "text", ""),
      channel |-> Get(event, "channel", None),
      user |-> Get(event, "user", None),
      event_id |-> event_id,
      at |-> "running" ]

\* Mutant of SlackEventsRecord: the event_id is put in the cache after the
\* filters, so only the ids of forwarded events are remembered.
SlackEventsRecordLate(h) ==
    /\ hpc[h] = "checked"
    /\ LET event == Get(hreq[h], "event", [json |-> "object"])
           event_id == Get(hreq[h], "event_id", "")
       IN  /\ slack_event_cache' =
                 IF Truthy(event_id) /\ Forwarded(event)
                 THEN slack_event_cache \cup {event_id}
                 ELSE slack_event_cache
           /\ threads' =
                 IF Forwarded(event) THEN Append(threads, Thread(event, event_id))
                 ELSE threads
    /\ hres' = [hres EXCEPT ![h] = OkResponse]
    /\ hpc' = [hpc EXCEPT ![h] = "idle"]
    /\ hreq' = [hreq EXCEPT ![h] = NoPayload]
    /\ UNCHANGED received
    /\ UNCHANGED <<ledger, iam1, commander, dashboard>>

\* Lines 113-141: the event_id is put in the cache, the event is filtered, the
\* background thread is started, and the function returns.
SlackEventsRecord(h) ==
    /\ hpc[h] = "checked"
    /\ LET event == Get(hreq[h], "event", [json |-> "object"])
           event_id == Get(hreq[h], "event_id", "")
       IN  /\ slack_event_cache' =
                 IF Truthy(event_id) THEN slack_event_cache \cup {event_id}
                 ELSE slack_event_cache
           /\ threads' =
                 IF Forwarded(event) THEN Append(threads, Thread(event, event_id))
                 ELSE threads
    /\ hres' = [hres EXCEPT ![h] = OkResponse]
    /\ hpc' = [hpc EXCEPT ![h] = "idle"]
    /\ hreq' = [hreq EXCEPT ![h] = NoPayload]
    /\ UNCHANGED received
    /\ UNCHANGED <<ledger, iam1, commander, dashboard>>

\* Lines 62-87: _process_slack_message on its thread, from the query of the
\* agent to the post to Slack; every exception is caught and logged.
ProcessSlackMessage(i, outcome) ==
    /\ i \in DOMAIN threads
    /\ threads[i].at = "running"
    /\ threads' = [threads EXCEPT ![i].at = outcome]
    /\ UNCHANGED <<slack_event_cache, hpc, hreq, hres, received>>
    /\ UNCHANGED <<ledger, iam1, commander, dashboard>>

\* ------------------------------------------------ route_to_agent (agent.py)

\* A call of a routing tool, as history: the function, its arguments, what the
\* other side did, the messages the call sent and the result it returned.
Call(fn, key, text, remote, sent, result) ==
    [ fn |-> fn, key |-> key, text |-> text, remote |-> remote,
      sent |-> sent, result |-> result ]

\* Lines 122-151: the look-up in AGENT_REGISTRY, specialist.send_message and
\* the formatted response; every exception is returned as an error string.
RouteToAgent(task_type, query, reply) ==
    /\ Len(calls) < MaxCalls
    /\ calls' = Append(calls,
          IF task_type \notin DOMAIN AGENT_REGISTRY
          THEN Call("route_to_agent", task_type, query, reply, << >>,
                    [ kind |-> "unknown_agent", key |-> task_type,
                      available |-> DOMAIN AGENT_REGISTRY ])
          ELSE Call("route_to_agent", task_type, query, reply,
                    << [to |-> AGENT_REGISTRY[task_type], text |-> query] >>,
                    IF reply.raises
                    THEN [ kind |-> "error", key |-> task_type,
                           error |-> reply.text ]
                    ELSE [ kind |-> "response", key |-> task_type,
                           text |-> << reply.text >> ]))
    /\ UNCHANGED <<PEER_IAM1_REGISTRY, a2a_sdk>>
    /\ UNCHANGED <<ledger, webhook, commander, dashboard>>

\* ------------------------------------ coordinate_with_peer_iam1 (a2a_tools.py)

\* Lines 111-115: response_text, the text of every part of type 'text'
\* followed by a newline: the sequence of its lines.
ResponseText(parts) ==
    LET texts == SelectSeq(parts, LAMBDA part : part.type = "text")
    IN  [ i \in 1..Len(texts) |-> texts[i].text ]

\* A line of nothing but white space.
Blank(line) == line \in {"", " "}

\* str.strip() of a text given as its lines: the leading and the trailing
\* blank lines are dropped.
Strip(lines) ==
    LET full == { i \in 1..Len(lines) : ~Blank(lines[i]) }
    IN  IF full = {} THEN << >>
        ELSE SubSeq(lines,
                    CHOOSE i \in full : \A j \in full : i <= j,
                    CHOOSE i \in full : \A j \in full : i >= j)

\* Mutant of PeerOutcome: no test for an empty response, and every status
\* that is not 'completed' is reported as a failure.
PeerOutcomeTwoWay(domain, task) ==
    IF task.status = "completed"
    THEN [ kind |-> "completed", key |-> domain,
           text |-> Strip(ResponseText(task.parts)) ]
    ELSE [ kind |-> "failed", key |-> domain,
           error |-> IF task.error = None THEN "Unknown error" ELSE task.error ]

\* Lines 109-158: the result for the task tasks.wait_until_complete returned.
PeerOutcome(domain, task) ==
    IF task.status = "completed"
    THEN IF Strip(ResponseText(task.parts)) = << >>
         THEN [ kind |-> "empty_response", key |-> domain ]
         ELSE [ kind |-> "completed", key |-> domain,
                text |-> Strip(ResponseText(task.parts)) ]
    ELSE IF task.status = "failed"
    THEN [ kind |-> "failed", key |-> domain,
           error |-> IF task.error = None THEN "Unknown error" ELSE task.error ]
    ELSE [ kind |-> "timeout", key |-> domain, status |-> task.status ]

\* Mutant of CoordinateWithPeerIam1: no check of the domain; an unknown domain
\* is sent to the first configured peer.
CoordinateWithAnyPeer(domain, request, remote) ==
    /\ Len(calls) < MaxCalls
    /\ \E known \in PeerDomains :
          /\ PEER_IAM1_REGISTRY[known] # ""
          /\ calls' = Append(calls,
                Call("coordinate_with_peer_iam1", domain, request, remote,
                     << [to |-> PEER_IAM1_REGISTRY[known], text |-> request] >>,
                     [ kind |-> "error", key |-> domain, error |-> "sent" ]))
    /\ UNCHANGED <<PEER_IAM1_REGISTRY, a2a_sdk>>
    /\ UNCHANGED <<ledger, webhook, commander, dashboard>>

\* Lines 54-177: the look-up in PEER_IAM1_REGISTRY, the check of the URL, the
\* import of the SDK, tasks.create, tasks.wait_until_complete and the result;
\* every exception is returned as an error string.
CoordinateWithPeerIam1(domain, request, remote) ==
    /\ Len(calls) < MaxCalls
    /\ calls' = Append(calls,
          IF domain \notin DOMAIN PEER_IAM1_REGISTRY
          THEN Call("coordinate_with_peer_iam1", domain, request, remote, << >>,
                    [ kind |-> "unknown_domain", key |-> domain,
                      available |-> DOMAIN PEER_IAM1_REGISTRY ])
          ELSE IF PEER_IAM1_REGISTRY[domain] = ""
          THEN Call("coordinate_with_peer_iam1", domain, request, remote, << >>,
                    [ kind |-> "not_configured", key |-> domain ])
          ELSE IF ~a2a_sdk
          THEN Call("coordinate_with_peer_iam1", domain, request, remote, << >>,
                    [ kind |-> "no_sdk", key |-> domain ])
          ELSE Call("coordinate_with_peer_iam1", domain, request, remote,
                    << [to |-> PEER_IAM1_REGISTRY[domain], text |-> request] >>,
                    IF remote.create = "raises" \/ remote.wait = "raises"
                    THEN [ kind |-> "error", key |-> domain,
                           error |-> "A2AError" ]
                    ELSE PeerOutcome(domain, remote)))
    /\ UNCHANGED <<PEER_IAM1_REGISTRY, a2a_sdk>>
    /\ UNCHANGED <<ledger, webhook, commander, dashboard>>

\* ------------------------------------- send_slack_notification (tools.py)

\* A call of an entry point, as history.
Command(fn, args, outcome, result) ==
    [ fn |-> fn, args |-> args, outcome |-> outcome, result |-> result ]

\* Lines 164-168: emoji_map.get(priority, info sign); the emoji are written
\* as their Slack names.
EmojiMap(priority) ==
    CASE priority = "info" -> ":information_source:"
      [] priority = "warning" -> ":warning:"
      [] priority = "critical" -> ":rotating_light:"
      [] OTHER -> ":information_source:"

\* Mutant of FormattedMessage: the mention is added for a warning too.
FormattedMessageLoud(priority, message) ==
    IF priority \in {"critical", "warning"}
    THEN "<!channel> " \o EmojiMap(priority) \o " " \o message
    ELSE EmojiMap(priority) \o " " \o message

\* Lines 170-174: formatted_message.
FormattedMessage(priority, message) ==
    IF priority = "critical"
    THEN "<!channel> " \o EmojiMap(priority) \o " " \o message
    ELSE EmojiMap(priority) \o " " \o message

\* Lines 142-193.
SendSlackNotification(channel, message, priority, outcome) ==
    LET args == [channel |-> channel, message |-> message,
                 priority |-> priority]
    IN
    /\ Len(commands) < MaxCommands
    /\ IF ~slack_client
       THEN /\ commands' = Append(commands,
                  Command("send_slack_notification", args, outcome,
                          [kind |-> "not_configured"]))
            /\ UNCHANGED slack_posts
       ELSE IF outcome.ok
       THEN /\ slack_posts' = Append(slack_posts,
                  [ channel |-> channel,
                    text |-> FormattedMessage(priority, message) ])
            /\ commands' = Append(commands,
                  Command("send_slack_notification", args, outcome,
                          [kind |-> "sent", channel |-> channel,
                           ts |-> outcome.text]))
       ELSE /\ commands' = Append(commands,
                  Command("send_slack_notification", args, outcome,
                          [kind |-> IF outcome.error = "SlackApiError"
                                    THEN "slack_error" ELSE "failed",
                           error |-> outcome.text]))
            /\ UNCHANGED slack_posts
    /\ UNCHANGED <<slack_client, inbox>>
    /\ UNCHANGED <<ledger, webhook, iam1, dashboard>>

\* ---------------------------------------------- handle_message (agent.py)

\* Lines 259-263: context_parts, joined by ', '.
ContextParts(user_id, channel) ==
    IF Truthy(user_id) /\ Truthy(channel)
    THEN "User: " \o user_id \o ", " \o "Channel: " \o channel
    ELSE IF Truthy(user_id) THEN "User: " \o user_id
    ELSE IF Truthy(channel) THEN "Channel: " \o channel
    ELSE ""

\* Mutant of FullMessage: the header is written even when it is empty.
FullMessageAlwaysHeader(message, user_id, channel) ==
    "[Context: " \o ContextParts(user_id, channel) \o "]\n\n" \o message

\* Lines 265-268: full_message.
FullMessage(message, user_id, channel) ==
    IF Truthy(user_id) \/ Truthy(channel)
    THEN "[Context: " \o ContextParts(user_id, channel) \o "]\n\n" \o message
    ELSE message

\* Lines 244-273: one send_message; its response is returned, its exception
\* propagates.
HandleMessage(message, user_id, channel, reply) ==
    /\ Len(commands) < MaxCommands
    /\ inbox' = Append(inbox, FullMessage(message, user_id, channel))
    /\ commands' = Append(commands,
          Command("handle_message",
                  [message |-> message, user_id |-> user_id,
                   channel |-> channel],
                  reply,
                  IF reply.raises
                  THEN [kind |-> "raised", error |-> reply.text]
                  ELSE [kind |-> "returned", response |-> reply.text]))
    /\ UNCHANGED <<slack_client, slack_posts>>
    /\ UNCHANGED <<ledger, webhook, iam1, dashboard>>

\* --------------------------------------------- query (agent_engine_app.py)

\* The dict query returns.
QueryResult(output, status) ==
    [ json |-> "object", output |-> output, status |-> status ]

\* Lines 21-63: the input is read and tested, logged by its first hundred
\* characters, handed to handle_message with the request's context, and the
\* response is logged by its first hundred characters and returned; every
\* exception is returned as an error.
Query(request, reply) ==
    LET user_input == Get(request, "input", "")
        invoked == /\ IsDict(request)
                   /\ Truthy(user_input)
                   /\ user_input # NonStr
    IN
    /\ Len(commands) < MaxCommands
    /\ inbox' = IF invoked
                THEN Append(inbox,
                            FullMessage(user_input,
                                        Get(request, "user_id", None),
                                        Get(request, "channel", None)))
                ELSE inbox
    /\ commands' = Append(commands,
          Command("query", request, reply,
                  IF ~IsDict(request)
                  THEN QueryResult("Error: 'NoneType' object has no attribute 'get'",
                                   "error")
                  ELSE IF ~Truthy(user_input)
                  THEN QueryResult("Error: No input provided", "error")
                  ELSE IF user_input = NonStr
                  THEN QueryResult("Error: object is not subscriptable",
                                   "error")
                  ELSE IF reply.raises
                  THEN QueryResult("Error: " \o reply.text, "error")
                  ELSE IF reply.text = NonStr
                  THEN QueryResult("Error: object is not subscriptable",
                                   "error")
                  ELSE QueryResult(reply.text, "success")))
    /\ UNCHANGED <<slack_client, slack_posts>>
    /\ UNCHANGED <<ledger, webhook, iam1, dashboard>>

\* ------------------------------------ update_firebase_dashboard (tools.py)

\* Lines 210-218: the dict as it is written, with its two stamps.
Stamped(data, updated_at) ==
    [ exists |-> TRUE, data |-> data, updated_at |-> updated_at,
      updated_by |-> "supreme_commander" ]

\* Mutant of UpdateFirebaseDashboard: an update of the metric 'task_status'
\* also moves every stored task to 'in_progress'.
UpdateDashboardAndTasks(metric_type, data, o) ==
    /\ Len(commands) < MaxCommands
    /\ apc.at = "idle"
    /\ tasks' = [ id \in DOMAIN tasks |->
                    IF tasks[id].exists
                    THEN [tasks[id] EXCEPT !.status = "in_progress"]
                    ELSE tasks[id] ]
    /\ rt_dashboard' = [rt_dashboard EXCEPT ![metric_type] = Stamped(data, now)]
    /\ commands' = Append(commands,
          Command("update_firebase_dashboard",
                  [metric_type |-> metric_type, data |-> data], o,
                  [kind |-> "updated", metric_type |-> metric_type]))
    /\ UNCHANGED <<task_plans, coordination_requests, issued, now, pc, ref,
                   res, met, returned>>
    /\ UNCHANGED <<slack_client, slack_posts, inbox>>
    /\ UNCHANGED <<alerts, rt_alerts, apc>>
    /\ UNCHANGED <<webhook, iam1>>

\* Lines 196-227: one write to /dashboard/{metric_type} of the Realtime
\* Database; every exception is returned as a failure string.
UpdateFirebaseDashboard(metric_type, data, o) ==
    /\ Len(commands) < MaxCommands
    /\ apc.at = "idle"
    /\ IF o = "ok" /\ IsDict(data)
       THEN /\ rt_dashboard' =
                  [rt_dashboard EXCEPT ![metric_type] = Stamped(data, now)]
            /\ commands' = Append(commands,
                  Command("update_firebase_dashboard",
                          [metric_type |-> metric_type, data |-> data], o,
                          [kind |-> "updated", metric_type |-> metric_type]))
       ELSE /\ commands' = Append(commands,
                  Command("update_firebase_dashboard",
                          [metric_type |-> metric_type, data |-> data], o,
                          [kind |-> "failed",
                           error |-> IF o = "ok" THEN "TypeError" ELSE o]))
            /\ UNCHANGED rt_dashboard
    /\ UNCHANGED <<slack_client, slack_posts, inbox>>
    /\ UNCHANGED <<alerts, rt_alerts, apc>>
    /\ UNCHANGED <<ledger, webhook, iam1>>

\* ------------------------------- send_dashboard_alert (firebase_interface.py)

\* Lines 228-237: alert_data; severity defaults to 'info', and the metadata
\* are added when they are given.
AlertData(alert_type, message, severity, metadata, created_at) ==
    IF Truthy(metadata)
    THEN [ exists |-> TRUE, type |-> alert_type, message |-> message,
           severity |-> IF severity = Omitted THEN "info" ELSE severity,
           created_at |-> created_at, status |-> "active",
           metadata |-> metadata ]
    ELSE [ exists |-> TRUE, type |-> alert_type, message |-> message,
           severity |-> IF severity = Omitted THEN "info" ELSE severity,
           created_at |-> created_at, status |-> "active" ]

\* document() of the collection 'alerts': an id not in use (the least one
\* stands for every id the client could draw).
AlertAutoId ==
    LET free == { id \in AlertIds : ~alerts[id].exists /\ ~rt_alerts[id].exists }
    IN  { id \in free : \A other \in free : id <= other }

\* Mutant of SendDashboardAlert: the first write goes to the Realtime
\* Database.
SendDashboardAlertRealtimeFirst(in, o) ==
    /\ Len(commands) < MaxCommands
    /\ apc.at = "idle"
    /\ AlertAutoId # {}
    /\ \E id \in AlertAutoId :
          /\ rt_alerts' = DocSet(rt_alerts, id,
                                 AlertData(in[1], in[2], in[3], in[4], now))
          /\ apc' = [ at |-> "stored", id |-> id,
                      data |-> AlertData(in[1], in[2], in[3], in[4], now),
                      given |-> in ]
    /\ UNCHANGED <<alerts, rt_dashboard>>
    /\ UNCHANGED <<ledger, webhook, iam1, commander>>

\* Lines 225-242: the Firestore client, alert_data, document() and set() on
\* the collection 'alerts'; an exception returns False.
SendDashboardAlert(in, o) ==
    /\ Len(commands) < MaxCommands
    /\ apc.at = "idle"
    /\ AlertAutoId # {}
    /\ IF o = "ok"
       THEN /\ \E id \in AlertAutoId :
                 /\ alerts' = DocSet(alerts, id,
                                     AlertData(in[1], in[2], in[3], in[4], now))
                 /\ apc' = [ at |-> "stored", id |-> id,
                             data |-> AlertData(in[1], in[2], in[3], in[4], now),
                             given |-> in ]
            /\ UNCHANGED commands
       ELSE /\ commands' = Append(commands,
                  Command("send_dashboard_alert", in, o, FALSE))
            /\ UNCHANGED <<alerts, apc>>
    /\ UNCHANGED <<rt_alerts, rt_dashboard>>
    /\ UNCHANGED <<slack_client, slack_posts, inbox>>
    /\ UNCHANGED <<ledger, webhook, iam1>>

\* Lines 244-253: set() on /alerts/{alert_ref.id} of the Realtime Database
\* with the same dict, and the return; an exception returns False.
SendDashboardAlertRealtime(o) ==
    /\ apc.at = "stored"
    /\ IF o = "ok"
       THEN rt_alerts' = DocSet(rt_alerts, apc.id, apc.data)
       ELSE UNCHANGED rt_alerts
    /\ commands' = Append(commands,
          Command("send_dashboard_alert", apc.given, o, o = "ok"))
    /\ apc' = AlertIdle
    /\ UNCHANGED <<alerts, rt_dashboard>>
    /\ UNCHANGED <<slack_client, slack_posts, inbox>>
    /\ UNCHANGED <<ledger, webhook, iam1>>

\* ---------------------------------- get_system_status (firebase_interface.py)

\* The ids of a set in ascending order: the order of a query without
\* order_by (by document id).
RECURSIVE Ascending(_)
Ascending(S) ==
    IF S = {} THEN << >>
    ELSE LET least == CHOOSE i \in S : \A j \in S : i <= j
         IN  << least >> \o Ascending(S \ {least})

\* The first n elements of a sequence: limit(n).
Limit(seq, n) == SubSeq(seq, 1, IF Len(seq) < n THEN Len(seq) ELSE n)

\* Lines 116-118: the ids of the documents of the query
\* where('status', 'in', ['assigned', 'in_progress']).limit(10).
ActiveTasks(collection) ==
    Limit(Ascending({ id \in DOMAIN collection :
                        /\ collection[id].exists
                        /\ collection[id].status \in {"assigned", "in_progress"} }),
          TaskLimit)

\* Lines 120-129: task_count over the documents of the query.
TaskCount(collection, ids, status) ==
    Len(SelectSeq(ids, LAMBDA id : collection[id].status = status))

\* Lines 131-159: the dict get_system_status returns.
SystemStatus(timestamp) ==
    LET active_tasks == ActiveTasks(tasks)
        active_plans ==
            Limit(Ascending({ id \in DOMAIN task_plans :
                                /\ task_plans[id].exists
                                /\ task_plans[id].status = "active" }),
                  PlanLimit)
        recent_alerts ==
            Limit(Ascending({ id \in DOMAIN alerts : alerts[id].exists }),
                  AlertLimit)
    IN  [ status |-> "success",
          timestamp |-> timestamp,
          metrics |->
            [ active_tasks |->
                  TaskCount(tasks, active_tasks, "assigned")
                  + TaskCount(tasks, active_tasks, "in_progress"),
              completed_today |-> TaskCount(tasks, active_tasks, "completed"),
              failed_tasks |-> TaskCount(tasks, active_tasks, "failed"),
              active_plans |-> Len(active_plans),
              recent_alerts |-> Len(recent_alerts) ],
          tasks |->
            [ i \in 1..Len(active_tasks) |->
                [ id |-> active_tasks[i],
                  agent |-> tasks[active_tasks[i]].agent_id,
                  status |-> tasks[active_tasks[i]].status,
                  priority |-> tasks[active_tasks[i]].priority ] ] ]

\* Lines 105-167: three queries and the dict; an exception returns the error
\* dict.
GetSystemStatus(o) ==
    /\ Len(commands) < MaxCommands
    /\ apc.at = "idle"
    /\ commands' = Append(commands,
          Command("get_system_status", << >>, o,
                  IF o = "ok" THEN SystemStatus(now)
                  ELSE [status |-> "error", error |-> o]))
    /\ UNCHANGED <<slack_client, slack_posts, inbox>>
    /\ UNCHANGED <<ledger, webhook, iam1, dashboard>>

\* ------------------------------------------------------- the specification

\* What a call that only reaches for the store can meet.
ReadOutcomes == {"ok", "unreachable"}

Next ==
    \E p \in Procs :
        \/ \E in \in DelegateInputs, o \in ReadOutcomes : Delegate(p, in, o)
        \/ \E o \in StoreOutcomes : DelegateSet(p, o)
        \/ \E in \in CoordInputs, o \in ReadOutcomes : Coordinate(p, in, o)
        \/ \E o \in StoreOutcomes : CoordinateSet(p, o)
        \/ \E in \in PlanInputs, o \in ReadOutcomes : CreatePlan(p, in, o)
        \/ \E o \in StoreOutcomes : CreatePlanSet(p, o)
        \/ \E goal_id \in Ids, o \in ReadOutcomes : Track(p, goal_id, o)
        \/ \E o \in ReadOutcomes : TrackPlan(p, o)

Spec == Init /\ [][Next]_vars

\* The progress reports over the plans a store can hold: a plan with any
\* 'tasks' list of up to MaxPlanTasks task dicts, and a plan as create_task_plan
\* left it; the callers track goals.
InitProgress ==
    /\ \E plan_tasks \in SeqsUpTo(PlanTaskDicts, MaxPlanTasks) :
          InitWith(StoredTask("in_progress"), StoredPlan(plan_tasks),
                   PlanData("deploy", "", 0))
    /\ InitIam1([domain \in PeerDomains |-> ""], FALSE)
    /\ InitCommander(FALSE)
    /\ InitDashboard

NextProgress ==
    \E p \in Procs :
        \/ \E goal_id \in Ids, o \in ReadOutcomes : Track(p, goal_id, o)
        \/ \E o \in ReadOutcomes : TrackPlan(p, o)

SpecProgress == InitProgress /\ [][NextProgress]_vars

\* The webhook process: request threads that serve the requests delivered to
\* it and the background threads they start; the ledger is not touched.
NextWebhook ==
    \/ \E h \in Handlers, payload \in Payloads : SlackEvents(h, payload)
    \/ \E h \in Handlers : SlackEventsRecord(h)
    \/ \E i \in 1..MaxRequests, outcome \in ProcessOutcomes :
          ProcessSlackMessage(i, outcome)

SpecWebhook == Init /\ [][NextWebhook]_vars

\* The IAM1 agent: its two routing tools, called one call after the other,
\* under every registry of peers and with or without the SDK.
InitRouting ==
    /\ InitWith(NoDoc, NoDoc, NoDoc)
    /\ \E registry \in PeerRegistries, installed \in BOOLEAN :
          InitIam1(registry, installed)
    /\ InitCommander(FALSE)
    /\ InitDashboard

NextRouting ==
    \/ \E task_type \in TaskTypes, reply \in SpecialistReplies :
          RouteToAgent(task_type, "query", reply)
    \/ \E domain \in Domains, remote \in RemoteTasks :
          CoordinateWithPeerIam1(domain, "request", remote)

SpecRouting == InitRouting /\ [][NextRouting]_vars

\* The Supreme Commander's entry points beside the ledger, called one call
\* after the other, with and without a Slack client.
InitCommands ==
    /\ InitWith(NoDoc, NoDoc, NoDoc)
    /\ InitIam1([domain \in PeerDomains |-> ""], FALSE)
    /\ \E client \in BOOLEAN : InitCommander(client)
    /\ InitDashboard

NextCommands ==
    \/ \E message \in SlackMessages, priority \in SlackPriorities,
          outcome \in SlackOutcomes :
          SendSlackNotification("ops", message, priority, outcome)
    \/ \E user_id \in UserIds, channel \in Channels, reply \in AgentReplies :
          HandleMessage("status?", user_id, channel, reply)
    \/ \E request \in Requests, reply \in AgentReplies :
          Query(request, reply)

SpecCommands == InitCommands /\ [][NextCommands]_vars

\* The tool operations that write, on a store that starts empty: one caller
\* of the ledger's tools beside one caller of the dashboard's.
InitTools ==
    /\ InitWith(NoDoc, NoDoc, NoDoc)
    /\ InitIam1([domain \in PeerDomains |-> ""], FALSE)
    /\ InitCommander(FALSE)
    /\ InitDashboard

NextTools ==
    \/ \E in \in DelegateInputs, o \in ReadOutcomes : Delegate("c1", in, o)
    \/ \E o \in StoreOutcomes : DelegateSet("c1", o)
    \/ \E in \in CoordInputs, o \in ReadOutcomes : Coordinate("c1", in, o)
    \/ \E o \in StoreOutcomes : CoordinateSet("c1", o)
    \/ \E in \in PlanInputs, o \in ReadOutcomes : CreatePlan("c1", in, o)
    \/ \E o \in StoreOutcomes : CreatePlanSet("c1", o)
    \/ \E goal_id \in Ids, o \in ReadOutcomes : Track("c1", goal_id, o)
    \/ \E o \in ReadOutcomes : TrackPlan("c1", o)
    \/ \E o \in ReadOutcomes :
          UpdateFirebaseDashboard("task_status",
                                  [json |-> "object", active |-> 1], o)
    \/ \E o \in ReadOutcomes :
          SendDashboardAlert(<<"task_failed", "build broke", "critical", None>>,
                             o)
    \/ \E o \in ReadOutcomes : SendDashboardAlertRealtime(o)

SpecTools == InitTools /\ [][NextTools]_vars

\* The dashboard's writers alone, under every input.
NextAlerts ==
    \/ \E metric_type \in MetricTypes, data \in DashboardData,
          o \in ReadOutcomes :
          UpdateFirebaseDashboard(metric_type, data, o)
    \/ \E in \in AlertInputs, o \in StoreOutcomes : SendDashboardAlert(in, o)
    \/ \E o \in ReadOutcomes : SendDashboardAlertRealtime(o)

SpecAlerts == InitTools /\ [][NextAlerts]_vars

\* The dashboard's reading of a store that holds up to MaxStored assigned
\* tasks, some tasks in progress and some completed ones.
StoredTasks(assigned, in_progress, completed) ==
    [ id \in 1..(completed + assigned + in_progress) |->
        StoredTask(IF id <= completed THEN "completed"
                   ELSE IF id <= completed + assigned THEN "assigned"
                   ELSE "in_progress") ]

InitStatus ==
    /\ \E assigned \in 0..MaxStored, in_progress \in 0..1, completed \in 0..1 :
          tasks = StoredTasks(assigned, in_progress, completed)
    /\ InitBesideTasks(NoDoc, NoDoc)
    /\ InitIam1([domain \in PeerDomains |-> ""], FALSE)
    /\ InitCommander(FALSE)
    /\ InitDashboard

NextStatus ==
    \E o \in ReadOutcomes : GetSystemStatus(o)

SpecStatus == InitStatus /\ [][NextStatus]_vars

\* ------------------------------------------------------------- vocabulary

\* Caller p took a step.
Stepped(p) ==
    <<pc[p], ref[p], res[p], met[p]>> # <<pc'[p], ref'[p], res'[p], met'[p]>>

\* Caller p's call of the function named op returns in this step.
Returns(p, op) ==
    /\ Stepped(p)
    /\ pc'[p] = "idle"
    /\ res'[p].op = op

\* The arguments satisfy the preconditions the specification puts on create_task.
ValidDelegate(in) ==
    /\ in[1] \notin {"", NonStr}
    /\ in[2] \notin {"", NonStr}
    /\ DefaultPriority(in[3]) \in Priorities

\* The life cycle of a task: assigned -> in_progress -> {completed, failed}.
Forward ==
    { <<"assigned", "in_progress">>, <<"assigned", "completed">>,
      <<"assigned", "failed">>, <<"in_progress", "completed">>,
      <<"in_progress", "failed">> }

\* ------------------------------------------------------------------ claims

\* C1: for valid arguments, a delegate_to_agent call that returns success has
\* stored under the returned id a task with status 'assigned' and the given
\* agent_id, description and priority (the default 'medium' when omitted); and
\* a track_goal_progress call on that id that begins after the id was returned,
\* and whose store reads succeed, reports that task: status 'assigned' and the
\* same agent_id, description and priority.
C1_DelegateThenTrack ==
    [][\A p \in Procs :
          /\ (Returns(p, "delegate") /\ res'[p].kind = "ok"
                  /\ ValidDelegate(ref[p].given))
             => LET in == ref[p].given
                    doc == tasks'[res'[p].out.id]
                IN  /\ doc.exists
                    /\ doc.status = "assigned"
                    /\ doc.agent_id = in[1]
                    /\ doc.task_description = in[2]
                    /\ doc.priority = DefaultPriority(in[3])
          /\ (Returns(p, "track") /\ res'[p].kind # "failed" /\ ref[p].known
                  /\ returned[ref[p].given[1]][1].op = "delegate"
                  /\ ValidDelegate(returned[ref[p].given[1]][1].given))
             => LET in == returned[ref[p].given[1]][1].given
                    out == res'[p].out
                IN  /\ res'[p].kind = "task"
                    /\ out.id = ref[p].given[1]
                    /\ out.status = "assigned"
                    /\ out.agent = in[1]
                    /\ out.description = in[2]
                    /\ out.priority = DefaultPriority(in[3])
      ]_vars

\* C1 witness: a caller holds the task report of an id that a delegate_to_agent
\* call with valid arguments returned before.
C1_Witness ==
    \E p \in Procs :
        /\ res[p].op = "track"
        /\ res[p].kind = "task"
        /\ returned[res[p].out.id] # << >>
        /\ returned[res[p].out.id][1].op = "delegate"
        /\ ValidDelegate(returned[res[p].out.id][1].given)
        /\ res[p].out.status = "assigned"

\* C2: every change of a task document is an edge of the life cycle: a task
\* comes into being as 'assigned', never disappears, and its status either
\* stays or moves forward (assigned -> in_progress -> {completed, failed});
\* a 'completed' or 'failed' task keeps its status for ever.
C2_StatusOnlyForward ==
    [][\A id \in Ids :
          IF tasks[id].exists
          THEN /\ tasks'[id].exists
               /\ \/ tasks'[id].status = tasks[id].status
                  \/ <<tasks[id].status, tasks'[id].status>> \in Forward
          ELSE tasks'[id].exists => tasks'[id].status = "assigned"
      ]_vars

\* C2 witness: the store holds a completed task and a task created after it,
\* and a progress report on the completed task still says 'completed'.
C2_Witness ==
    /\ \E id \in Ids : tasks[id].exists /\ tasks[id].status = "assigned"
    /\ \E p \in Procs :
          /\ res[p].op = "track"
          /\ res[p].kind = "task"
          /\ res[p].out.status = "completed"
          /\ tasks[res[p].out.id].status = "completed"


\* C5: when the store is unreachable or rejects the write during a
\* delegate_to_agent call, the call returns at that step with a failure result
\* (not success), no collection changes, and no task document exists under the
\* id the call had generated.
C5_DelegateStoreFailure ==
    [][\A p \in Procs :
          (Stepped(p) /\ res'[p].op = "delegate" /\ met'[p] # "ok")
          => /\ pc'[p] = "idle"
             /\ res'[p].kind = "failed"
             /\ res'[p].out.error = met'[p]
             /\ tasks' = tasks
             /\ task_plans' = task_plans
             /\ coordination_requests' = coordination_requests
             /\ ref[p].id # NoId => ~tasks'[ref[p].id].exists
      ]_vars

\* C5 witness: a delegate_to_agent call has returned a failure because the
\* store rejected its write, and the id it had generated holds no document.
C5_Witness ==
    \E p \in Procs :
        /\ pc[p] = "idle"
        /\ res[p] = Failed("delegate", "rejected")
        /\ met[p] = "rejected"
        /\ \E id \in issued \ {1, 2} :
              /\ ~tasks[id].exists
              /\ \A q \in Procs : ref[q].id # id

\* C6: a track_goal_progress call on an id that is neither a stored task nor a
\* stored plan never returns a task status or a plan progress; when its store
\* reads succeed it returns the not-found result naming that id.
C6_UnknownIdNotFound ==
    [][\A p \in Procs :
          /\ (Stepped(p) /\ res'[p].op = "track" /\ pc[p] = "idle")
             => res'[p].kind \in {"running", "failed"}
          /\ (Returns(p, "track") /\ pc[p] = "track_plan"
                 /\ ~tasks[ref[p].given[1]].exists
                 /\ ~task_plans[ref[p].given[1]].exists)
             => /\ res'[p].kind \in {"notfound", "failed"}
                /\ met'[p] = "ok" =>
                      res'[p] = [ op |-> "track", kind |-> "notfound",
                                  out |-> [ kind |-> "notfound",
                                            id |-> ref[p].given[1] ] ]
      ]_vars

\* C6 witness: a caller holds the not-found result of an id that is in neither
\* collection.
C6_Witness ==
    \E p \in Procs :
        /\ res[p].op = "track"
        /\ res[p].kind = "notfound"
        /\ ~tasks[res[p].out.id].exists
        /\ ~task_plans[res[p].out.id].exists

\* C7: for every stored plan, a track_goal_progress call on its id whose store
\* reads succeed reports the plan with total_count the length of the plan's
\* 'tasks' list and completed_count the number of entries of that list whose
\* status is 'completed'; a plan with no tasks is reported as (0, 0).
C7_PlanProgressCounts ==
    [][\A p \in Procs :
          (Returns(p, "track") /\ pc[p] = "track_plan" /\ met'[p] = "ok"
              /\ task_plans[ref[p].given[1]].exists)
          => LET plan == task_plans[ref[p].given[1]]
                 done == { i \in 1..Len(plan.tasks) :
                             plan.tasks[i].status = "completed" }
             IN  /\ res'[p].kind = "plan"
                 /\ res'[p].out.id = ref[p].given[1]
                 /\ res'[p].out.total = Len(plan.tasks)
                 /\ res'[p].out.completed = Cardinality(done)
                 /\ plan.tasks = << >> =>
                       (res'[p].out.completed = 0 /\ res'[p].out.total = 0)
      ]_vars

\* C7 witness: one caller holds the report (0, 0) of a plan with no tasks and
\* the other the report of a plan some, but not all, of whose tasks are
\* completed.
C7_Witness ==
    \E p, q \in Procs :
        /\ res[p].op = "track" /\ res[p].kind = "plan"
        /\ res[p].out.total = 0 /\ res[p].out.completed = 0
        /\ res[q].op = "track" /\ res[q].kind = "plan"
        /\ res[q].out.total >= 2
        /\ res[q].out.completed > 0
        /\ res[q].out.completed < res[q].out.total

\* C9: a create_task_plan call that returns success returns the id of a plan
\* document that did not exist before and now holds the given objective, the
\* given context (the empty string when omitted), status 'draft' and an empty
\* 'tasks' list; the call succeeds whenever the store does.
C9_CreatePlanDraft ==
    [][\A p \in Procs :
          (Returns(p, "plan") /\ pc[p] = "plan_set")
          => /\ met'[p] = "ok" => res'[p].kind = "ok"
             /\ res'[p].kind = "ok"
                => LET id == res'[p].out.id
                       in == ref[p].given
                   IN  /\ id \in Ids
                       /\ ~task_plans[id].exists
                       /\ task_plans'[id].exists
                       /\ task_plans'[id].objective = in[1]
                       /\ task_plans'[id].context =
                             (IF in[2] = Omitted THEN "" ELSE in[2])
                       /\ task_plans'[id].status = "draft"
                       /\ task_plans'[id].tasks = << >>
                       /\ \A other \in Ids \ {id} :
                             task_plans'[other] = task_plans[other]
      ]_vars

\* C9 witness: a caller holds the id of a draft plan it created with the
\* context left out.
C9_Witness ==
    \E p \in Procs :
        /\ res[p].op = "plan"
        /\ res[p].kind = "ok"
        /\ returned[res[p].out.id][1].given[2] = Omitted
        /\ task_plans[res[p].out.id].status = "draft"
        /\ task_plans[res[p].out.id].context = ""
        /\ task_plans[res[p].out.id].tasks = << >>

\* A create call of caller p has generated its id and not yet written.
Creating(p) == pc[p] \in {"delegate_set", "coordinate_set", "plan_set"}

TrackReportPlanFirst(goal_id, task_doc, plan_doc) ==
    IF plan_doc.exists
    THEN [ kind |-> "plan", id |-> goal_id,
           objective |-> plan_doc.objective,
           completed |-> CompletedOf(plan_doc.tasks),
           total |-> Len(plan_doc.tasks),
           status |-> plan_doc.status,
           created |-> plan_doc.created_at ]
    ELSE IF task_doc.exists
    THEN [ kind |-> "task", id |-> goal_id,
           agent |-> task_doc.agent_id,
           description |-> task_doc.task_description,
           status |-> task_doc.status,
           priority |-> task_doc.priority,
           created |-> task_doc.created_at ]
    ELSE [ kind |-> "notfound", id |-> goal_id ]

Malformed(in) ==
    \/ in[1] = ""
    \/ in[2] = ""
    \/ DefaultPriority(in[3]) \notin Priorities

\* C12: a delegate_to_agent call whose agent_id or description is empty, or
\* whose priority is none of critical, high, medium, low,
\* returns a failure and writes no task document; a call that succeeds with
\* the priority left out stores the priority 'medium'.
C12_RejectsMalformedInput ==
    [][\A p \in Procs :
          /\ (Returns(p, "delegate") /\ pc[p] = "delegate_set"
                 /\ Malformed(ref[p].given))
             => /\ res'[p].kind = "failed"
                /\ tasks' = tasks
          /\ (Returns(p, "delegate") /\ res'[p].kind = "ok"
                 /\ ref[p].given[3] = Omitted)
             => tasks'[res'[p].out.id].priority = "medium"
      ]_vars

\* C14: a coordinate_with_peer_agent call succeeds whenever the store does,
\* and a call that returns success returns the id of a document of the
\* collection 'coordination_requests' that did not exist before and now holds
\* status 'pending', the given peer_agent_id and request and no priority field;
\* the collections 'tasks' and 'task_plans' are left as they were.
C14_CoordinationRequestPending ==
    [][\A p \in Procs :
          (Returns(p, "coordinate") /\ pc[p] = "coordinate_set")
          => /\ met'[p] = "ok" => res'[p].kind = "ok"
             /\ res'[p].kind = "ok"
                => LET id == res'[p].out.id
                       in == ref[p].given
                       doc == coordination_requests'[id]
                   IN  /\ id \in Ids
                       /\ ~coordination_requests[id].exists
                       /\ doc.exists
                       /\ doc.status = "pending"
                       /\ doc.peer_agent_id = in[1]
                       /\ doc.request = in[2]
                       /\ "priority" \notin DOMAIN doc
                       /\ tasks' = tasks
                       /\ task_plans' = task_plans
                       /\ \A other \in Ids \ {id} :
                             coordination_requests'[other] =
                                 coordination_requests[other]
      ]_vars

\* C14 witness: a caller holds the id of the pending coordination request it
\* created, and that id is neither a task nor a plan.
C14_Witness ==
    \E p \in Procs :
        /\ res[p].op = "coordinate"
        /\ res[p].kind = "ok"
        /\ coordination_requests[res[p].out.id].exists
        /\ coordination_requests[res[p].out.id].status = "pending"
        /\ coordination_requests[res[p].out.id].peer_agent_id = "finance"
        /\ ~tasks[res[p].out.id].exists
        /\ ~task_plans[res[p].out.id].exists

\* Document after has every field of document before, with the same value,
\* except possibly the status (and the 'tasks' list, compared apart).
SameButStatus(before, after) ==
    /\ after.exists
    /\ DOMAIN after = DOMAIN before
    /\ \A k \in DOMAIN before \ {"status", "tasks"} : after[k] = before[k]

\* Sequence longer begins with sequence shorter.
Extends(longer, shorter) ==
    /\ Len(shorter) <= Len(longer)
    /\ SubSeq(longer, 1, Len(shorter)) = shorter

\* C16: no step changes a field other than the status of a task, plan or
\* coordination request that exists, removes such a document, or removes or
\* reorders an entry of a plan's 'tasks' list; and after every step that
\* writes a document or returns an id, every document a create call has
\* returned still holds the arguments of that call.
C16_OnlyStatusChanges ==
    [][\/ UNCHANGED <<tasks, task_plans, coordination_requests, returned>>
       \/ \A id \in Ids :
             /\ (tasks[id].exists /\ tasks'[id] # tasks[id])
                   => SameButStatus(tasks[id], tasks'[id])
             /\ (coordination_requests[id].exists
                    /\ coordination_requests'[id] # coordination_requests[id])
                   => SameButStatus(coordination_requests[id],
                                    coordination_requests'[id])
             /\ (task_plans[id].exists /\ task_plans'[id] # task_plans[id])
                   => /\ SameButStatus(task_plans[id], task_plans'[id])
                      /\ Extends(task_plans'[id].tasks, task_plans[id].tasks)
             /\ returned'[id] # << >>
                   => LET made == returned'[id][1]
                      IN  CASE made.op = "delegate" ->
                                 /\ tasks'[id].agent_id = made.given[1]
                                 /\ tasks'[id].task_description = made.given[2]
                                 /\ tasks'[id].priority =
                                       DefaultPriority(made.given[3])
                                 /\ tasks'[id].created_by = "supreme_commander"
                            [] made.op = "plan" ->
                                 /\ task_plans'[id].objective = made.given[1]
                                 /\ task_plans'[id].context =
                                       DefaultContext(made.given[2])
                            [] made.op = "coordinate" ->
                                 /\ coordination_requests'[id].peer_agent_id =
                                       made.given[1]
                                 /\ coordination_requests'[id].request =
                                       made.given[2]
      ]_vars

\* C16 witness: a task the callers created is still as it was created after a
\* later call created another task in the same collection.
C16_Witness ==
    \E id, later \in Ids :
        /\ returned[id] # << >> /\ returned[id][1].op = "delegate"
        /\ returned[later] # << >> /\ returned[later][1].op = "delegate"
        /\ tasks[id].created_at < tasks[later].created_at
        /\ tasks[id].agent_id = returned[id][1].given[1]
        /\ tasks[id].status = "assigned"

\* C17: the report a track_goal_progress call returns when its store reads
\* succeed is the report of the store as it was at one instant of the call:
\* either of the documents the store held under goal_id when the call made its
\* first read, or of the documents it holds when the call makes its last read,
\* whatever the other callers wrote in between.
C17_TrackConsistentSnapshot ==
    [][\A p \in Procs :
          (Returns(p, "track") /\ pc[p] = "track_plan" /\ met'[p] = "ok")
          => LET id == ref[p].given[1]
             IN  \/ res'[p].out =
                       TrackReport(id, ref[p].began[1], ref[p].began[2])
                 \/ res'[p].out = TrackReport(id, tasks[id], task_plans[id])
      ]_vars

\* C17 witness: a track_goal_progress call is between its two reads, and the
\* task document of its goal_id, which did not exist at the first read, has
\* been written by another caller since.
C17_Witness ==
    \E p \in Procs :
        /\ pc[p] = "track_plan"
        /\ ~ref[p].began[1].exists
        /\ tasks[ref[p].id].exists

\* C18: every call of delegate_to_agent, coordinate_with_peer_agent,
\* create_task_plan and track_goal_progress ends by returning a result, and
\* the step in which a call returns a failure changes no collection and leaves
\* no document under the id the call had generated: a call that reports
\* failure has written nothing.
C18_FailureLeavesStoreUnchanged ==
    [][\A p \in Procs :
          /\ (Stepped(p) /\ pc'[p] = "idle")
             => res'[p].kind \in {"ok", "failed", "task", "plan", "notfound"}
          /\ (Stepped(p) /\ pc'[p] = "idle" /\ res'[p].kind = "failed")
             => /\ tasks' = tasks
                /\ task_plans' = task_plans
                /\ coordination_requests' = coordination_requests
                /\ (Creating(p) =>
                       /\ ~tasks'[ref[p].id].exists
                       /\ ~task_plans'[ref[p].id].exists
                       /\ ~coordination_requests'[ref[p].id].exists)
      ]_vars

\* The number of background threads started for event_id.
Started(event_id) ==
    Cardinality({ i \in DOMAIN threads : threads[i].event_id = event_id })

\* C19: for every non-empty event_id, whatever the deliveries and however the
\* request threads interleave, at most one background thread
\* (_process_slack_message) has been started for that event_id.
C19_AtMostOneStartPerEvent ==
    \A i \in DOMAIN threads :
        Truthy(threads[i].event_id) => Started(threads[i].event_id) <= 1

\* The response the webhook owes to a payload: the challenge for a URL
\* verification, {ok: true} for every other payload, both with status 200.
Expected(payload) ==
    IF Get(payload, "type", None) = "url_verification"
    THEN ChallengeResponse(Get(payload, "challenge", None))
    ELSE OkResponse

\* C20: slack_events answers every request with status 200, the challenge for
\* a url_verification payload and {ok: true} for every other payload, at the
\* step it returns and whatever the state of the background threads (running,
\* ended or failed), which that step neither waits for nor changes.
C20_AlwaysAnswers200 ==
    [][/\ (received' # received /\ hpc' = hpc)
          => \E h \in Handlers :
                /\ hpc[h] = "idle"
                /\ hres'[h] = Expected(received'[Len(received')])
                /\ \A g \in Handlers \ {h} : hres'[g] = hres[g]
       /\ \A h \in Handlers :
             (hpc[h] = "checked" /\ hpc'[h] = "idle")
             => /\ hres'[h] = Expected(hreq[h])
                /\ \A i \in DOMAIN threads : threads'[i] = threads[i]
      ]_vars

\* The event is one the webhook must not forward: it comes from a bot, or is
\* no message and no mention, or has no text or no channel.
Discarded(event) ==
    \/ "bot_id" \in DOMAIN event /\ event.bot_id \notin {"", None}
    \/ "user" \in DOMAIN event /\ event.user = "USLACKBOT"
    \/ "type" \notin DOMAIN event
    \/ event.type \notin {"message", "app_mention"}
    \/ "text" \notin DOMAIN event
    \/ event.text = ""
    \/ "channel" \notin DOMAIN event

\* C21: the step in which slack_events finishes with an event that carries a
\* bot_id, or whose user is USLACKBOT, or whose type is neither 'message' nor
\* 'app_mention', or that has an empty text or no channel, starts no
\* background thread; and every background thread that exists, and so every
\* message posted to Slack, has a text, a channel and a user that is not
\* USLACKBOT.
C21_NeverForwardsFiltered ==
    /\ [](\A i \in DOMAIN threads :
             /\ Truthy(threads[i].text)
             /\ Truthy(threads[i].channel)
             /\ threads[i].user # "USLACKBOT")
    /\ [][\A h \in Handlers :
            (hpc[h] = "checked" /\ hpc'[h] = "idle"
                /\ Discarded(hreq[h].event))
            => threads' = threads
        ]_vars

\* C21 witness: the webhook has answered two requests, one with a bot message
\* and one with a message without text, both ids are in the cache, and no
\* background thread was started.
C21_Witness ==
    /\ \A h \in Handlers : hpc[h] = "idle"
    /\ \E i \in DOMAIN received :
          /\ "event" \in DOMAIN received[i]
          /\ "bot_id" \in DOMAIN received[i].event
    /\ \E i \in DOMAIN received :
          /\ "event" \in DOMAIN received[i]
          /\ "text" \in DOMAIN received[i].event
          /\ received[i].event.text = ""
    /\ {"E1", "E3"} \subseteq slack_event_cache
    /\ threads = << >>

\* The payload is a URL verification.
IsVerification(payload) ==
    "type" \in DOMAIN payload /\ payload.type = "url_verification"

\* The event_id of a payload, the empty string when it has none.
EventIdOf(payload) ==
    IF "event_id" \in DOMAIN payload THEN payload.event_id ELSE ""

\* The payload is one slack_events cannot read: no JSON object, or an event
\* that is none, or an event_id that cannot be a dictionary key.
Unreadable(payload) ==
    \/ payload.json # "object"
    \/ /\ ~IsVerification(payload)
       /\ \/ "event" \in DOMAIN payload /\ payload.event.json # "object"
          \/ EventIdOf(payload) = Unhashable

\* The request that ends in this step, when one does: the payload of a call
\* that returns from its first part, or of a call that returns from its last.
EndsWith(payload) ==
    \/ /\ received' # received
       /\ hpc' = hpc
       /\ payload = received'[Len(received')]
    \/ \E h \in Handlers :
          /\ hpc[h] = "checked"
          /\ hpc'[h] = "idle"
          /\ payload = hreq[h]

\* What C29 says of the requests in Scope: the cache never loses an id; when
\* a request ends that is no URL verification and has a non-empty event_id,
\* the id is in the cache, whether the event was forwarded or discarded; a
\* step of a URL verification or of a request with an empty event_id leaves
\* the cache as it was; and a request with an empty event_id is never
\* answered as a duplicate: it goes on to the filters.
CacheRecords(Scope) ==
    /\ slack_event_cache \subseteq slack_event_cache'
    /\ \A payload \in Scope :
          /\ (EndsWith(payload) /\ ~IsVerification(payload)
                 /\ EventIdOf(payload) # "")
             => EventIdOf(payload) \in slack_event_cache'
          /\ (EndsWith(payload)
                 /\ (IsVerification(payload) \/ EventIdOf(payload) = ""))
             => slack_event_cache' = slack_event_cache
          /\ (received' # received /\ payload = received'[Len(received')]
                 /\ ~IsVerification(payload) /\ EventIdOf(payload) = ""
                 /\ ~Unreadable(payload))
             => hpc' # hpc

Answered ==
    { i \in 1..Len(calls) :
        /\ calls[i].fn = "coordinate_with_peer_iam1"
        /\ calls[i].sent # << >>
        /\ calls[i].remote.create = "ok"
        /\ calls[i].remote.wait = "ok" }

\* The text parts of a task hold nothing but white space.
NoText(task) ==
    \A i \in 1..Len(task.parts) :
        task.parts[i].type = "text" => Blank(task.parts[i].text)

\* C22 as stated: a peer coordination call returns exactly one of three
\* outcomes, determined by the final status of the remote task: a completed
\* result carrying the peer's text when the status is 'completed', a failure
\* carrying the reason when it is 'failed', and a timeout indication only when
\* the peer did not finish.
C22_ThreeOutcomesByStatus ==
    \A i \in Answered :
        LET task == calls[i].remote
            result == calls[i].result
        IN  /\ result.kind \in {"completed", "failed", "timeout"}
            /\ task.status = "completed" =>
                   /\ result.kind = "completed"
                   /\ result.text = Strip(ResponseText(task.parts))
            /\ task.status = "failed" =>
                   /\ result.kind = "failed"
                   /\ result.error =
                          (IF task.error = None THEN "Unknown error"
                           ELSE task.error)
            /\ result.kind = "timeout" =>
                   task.status \notin {"completed", "failed"}

\* C22, amended: the outcome is determined by the final status of the remote
\* task and, for a completed task, by its text: a completed result carrying
\* the stripped text when the text parts hold something, an empty-response
\* error when they hold nothing, a failure carrying the task's error (or
\* 'Unknown error') when the status is 'failed', and the timeout indication,
\* carrying the status, for every other status.
C22_OutcomeByStatusAndText ==
    \A i \in Answered :
        LET task == calls[i].remote
            result == calls[i].result
        IN  /\ (task.status = "completed" /\ ~NoText(task)) =>
                   /\ result.kind = "completed"
                   /\ result.text = Strip(ResponseText(task.parts))
                   /\ result.text # << >>
            /\ (task.status = "completed" /\ NoText(task)) =>
                   result.kind = "empty_response"
            /\ task.status = "failed" =>
                   /\ result.kind = "failed"
                   /\ result.error =
                          (IF task.error = None THEN "Unknown error"
                           ELSE task.error)
            /\ task.status \notin {"completed", "failed"} =>
                   /\ result.kind = "timeout"
                   /\ result.status = task.status

\* Two peers answered: one with text around blank parts, which came back
\* stripped, and one with a completed task that holds no text.
C22_Witness ==
    \E i \in Answered, j \in Answered :
        /\ calls[i].result.kind = "completed"
        /\ Len(ResponseText(calls[i].remote.parts)) = 4
        /\ calls[i].result.text = << "answer", "more" >>
        /\ calls[j].result.kind = "empty_response"
        /\ calls[j].remote.status = "completed"

\* C23: a registry look-up with an unknown key takes the explicit error path:
\* route_to_agent returns the unknown-agent result and sends no message to a
\* specialist, coordinate_with_peer_iam1 returns the unknown-domain result
\* and makes no remote call; every call returns a result; and a known key
\* reaches exactly the agent or the peer registered under that key.
C23_UnknownKeyIsAnError ==
    \A i \in 1..Len(calls) :
        LET call == calls[i]
            registry == IF call.fn = "route_to_agent" THEN AGENT_REGISTRY
                        ELSE PEER_IAM1_REGISTRY
            unknown == IF call.fn = "route_to_agent" THEN "unknown_agent"
                       ELSE "unknown_domain"
        IN  IF call.key \notin DOMAIN registry
            THEN /\ call.result.kind = unknown
                 /\ call.result.key = call.key
                 /\ call.sent = << >>
            ELSE /\ call.result.kind # unknown
                 /\ call.result.kind \in
                        {"response", "error", "not_configured", "no_sdk",
                         "completed", "empty_response", "failed", "timeout"}
                 /\ \A m \in 1..Len(call.sent) :
                        call.sent[m].to = registry[call.key]
                 /\ (call.fn = "route_to_agent"
                        \/ (PEER_IAM1_REGISTRY[call.key] # "" /\ a2a_sdk)) =>
                        Len(call.sent) = 1

\* One task type that is not registered was refused, and one registered
\* domain reached the peer registered under it.
C23_Witness ==
    \E i \in 1..Len(calls), j \in 1..Len(calls) :
        /\ calls[i].fn = "route_to_agent"
        /\ calls[i].key = "finance"
        /\ calls[i].result.kind = "unknown_agent"
        /\ calls[j].fn = "coordinate_with_peer_iam1"
        /\ calls[j].key = "finance"
        /\ calls[j].sent =
               << [to |-> "https://finance.example", text |-> "request"] >>

\* ------------------------------------------- the Supreme Commander's messages

\* The call of an entry point that returns in this step.
Answers(command) ==
    /\ Len(commands') = Len(commands) + 1
    /\ command = commands'[Len(commands')]

\* The text begins with the broadcast mention.
HasMention(text) ==
    /\ Len(text) >= 11
    /\ SubSeq(text, 1, 11) = "<!channel> "

\* The text after the broadcast mention, when it begins with one.
AfterMention(text) ==
    IF HasMention(text) THEN SubSeq(text, 12, Len(text)) ELSE text

Given(value) == value \notin {None, ""}

\* C25: handle_message sends exactly one message to the agent per call and
\* returns the agent's response unchanged; the message sent is the user's
\* message after a context header that lists the user id and/or the channel
\* when at least one of them is given, and the user's message unchanged when
\* neither is given.
C25_OneMessageWithContext ==
    [][ \A command \in {commands'[i] : i \in 1..Len(commands')} :
          (Answers(command) /\ command.fn = "handle_message") =>
              LET message == command.args.message
                  user_id == command.args.user_id
                  channel == command.args.channel
              IN  /\ Len(inbox') = Len(inbox) + 1
                  /\ SubSeq(inbox', 1, Len(inbox)) = inbox
                  /\ ~command.outcome.raises =>
                         /\ command.result.kind = "returned"
                         /\ command.result.response = command.outcome.text
                  /\ inbox'[Len(inbox')] =
                         (CASE Given(user_id) /\ Given(channel) ->
                                   "[Context: User: " \o user_id
                                   \o ", Channel: " \o channel \o "]\n\n"
                                   \o message
                            [] Given(user_id) /\ ~Given(channel) ->
                                   "[Context: User: " \o user_id \o "]\n\n"
                                   \o message
                            [] ~Given(user_id) /\ Given(channel) ->
                                   "[Context: Channel: " \o channel \o "]\n\n"
                                   \o message
                            [] OTHER -> message)
      ]_vars

\* A message with a user id alone went out under its header and its response
\* came back; a message with no context went out unchanged.
C25_Witness ==
    /\ Len(commands) = 2
    /\ commands[1].fn = "handle_message"
    /\ commands[1].result =
           [kind |-> "returned", response |-> "All systems nominal"]
    /\ commands[2].fn = "handle_message"
    /\ commands[2].args.user_id = None
    /\ commands[2].args.channel = None
    /\ inbox = << "[Context: User: U1]\n\nstatus?", "status?" >>

C30_FirestoreBeforeRealtime ==
    /\ [](\A id \in AlertIds :
              rt_alerts[id].exists => alerts[id] = rt_alerts[id])
    /\ [][ \A command \in {commands'[i] : i \in 1..Len(commands')} :
             (Answers(command) /\ command.fn = "send_dashboard_alert") =>
                 IF command.result
                 THEN /\ apc.at = "stored"
                      /\ alerts'[apc.id] = apc.data
                      /\ ~rt_alerts[apc.id].exists
                      /\ rt_alerts'[apc.id] = apc.data
                 ELSE rt_alerts' = rt_alerts
         ]_vars

\* One call returned True and its alert is in both stores; another returned
\* False after its first write, and its alert is in Firestore alone.
C30_Witness ==
    /\ Len(commands) = 2
    /\ commands[1].fn = "send_dashboard_alert"
    /\ commands[1].result
    /\ alerts[1].exists
    /\ rt_alerts[1] = alerts[1]
    /\ commands[2].fn = "send_dashboard_alert"
    /\ ~commands[2].result
    /\ alerts[2].exists
    /\ ~rt_alerts[2].exists

\* C27: get_system_status reports the active tasks: metrics.active_tasks is
\* the number of stored tasks whose status is 'assigned' or 'in_progress' and
\* the returned list holds exactly those tasks, for any number of stored
\* tasks.
C27_ReportsEveryActiveTask ==
    \A i \in 1..Len(commands) :
        (commands[i].fn = "get_system_status"
            /\ commands[i].result.status = "success") =>
            LET report == commands[i].result
                active == { id \in DOMAIN tasks :
                              /\ tasks[id].exists
                              /\ tasks[id].status \in {"assigned", "in_progress"} }
            IN  /\ report.metrics.active_tasks = Cardinality(active)
                /\ Len(report.tasks) = Cardinality(active)
                /\ { report.tasks[k].id : k \in 1..Len(report.tasks) } = active

\* C28: after any sequence of the tool operations (delegate_to_agent,
\* create_task_plan, coordinate_with_peer_agent, track_goal_progress,
\* update_firebase_dashboard, send_dashboard_alert) on a store that started
\* empty, every stored task has status 'assigned', every stored plan has
\* status 'draft' and an empty tasks list, and every coordination request has
\* status 'pending'; no operation writes to a ledger record that exists; and
\* every progress report of a plan says 0 of 0.
C28_NoOperationAdvancesARecord ==
    /\ [](/\ \A id \in Ids :
               /\ tasks[id].exists => tasks[id].status = "assigned"
               /\ task_plans[id].exists =>
                      /\ task_plans[id].status = "draft"
                      /\ task_plans[id].tasks = << >>
               /\ coordination_requests[id].exists =>
                      coordination_requests[id].status = "pending"
          /\ \A p \in Procs :
               res[p].kind = "plan" =>
                   (res[p].out.completed = 0 /\ res[p].out.total = 0))
    /\ [][ \A id \in Ids :
             /\ tasks[id].exists => tasks'[id] = tasks[id]
             /\ task_plans[id].exists => task_plans'[id] = task_plans[id]
             /\ coordination_requests[id].exists =>
                    coordination_requests'[id] = coordination_requests[id]
         ]_vars

\* The store holds a task and a plan created here, the dashboard was updated
\* and an alert was sent, and the caller holds the plan's report, 0 of 0.
C28_Witness ==
    /\ \E id \in Ids : tasks[id].exists
    /\ \E id \in Ids :
          /\ task_plans[id].exists
          /\ res["c1"].kind = "plan"
          /\ res["c1"].out.id = id
          /\ res["c1"].out.total = 0
    /\ \E i \in 1..Len(commands) :
          /\ commands[i].fn = "update_firebase_dashboard"
          /\ commands[i].result.kind = "updated"
    /\ \E i \in 1..Len(commands) :
          /\ commands[i].fn = "send_dashboard_alert"
          /\ commands[i].result

====
